---- MODULE Spec2Model ----
(***************************************************************************)
(* A model of pylinq's IEnumerable (src/pylinq/enumerable.py).             *)
(*                                                                         *)
(* The program state is a set of IEnumerable instances (enums) and the     *)
(* Python iterator objects they wrap or have created (heap).  An instance  *)
(* holds _iterable, which is a list (built from a list or tuple), a dict   *)
(* (the result of distinct) or an iterator (a generator, an islice, a      *)
(* chain, a generator expression), and _iterator, the cursor that          *)
(* __next__ creates on its first call.  Every public method is one action; *)
(* `last` records the call just made and what it returned or raised, and   *)
(* `before` is a history variable: what a traversal of each instance would *)
(* have read just before that call.                                        *)
(***************************************************************************)
EXTENDS Integers, Sequences, FiniteSets

VARIABLES enums, heap, last, before

vars == <<enums, heap, last, before>>

\* ---------------------------------------------------------------- bounds
MaxLen == 2

Elems == {1, 2, 3}

\* An optional integer (Python's None or an int): <<>> or <<n>>.
NoneV == <<>>
Some(n) == <<n>>
IsNone(o) == o = <<>>
Val(o) == o[1]

RECURSIVE SeqsUpTo(_, _)
SeqsUpTo(S, n) ==
    IF n = 0 THEN {<<>>}
    ELSE LET shorter == SeqsUpTo(S, n - 1)
         IN  shorter \cup {Append(s, x) : s \in {t \in shorter : Len(t) = n - 1}, x \in S}

Min(a, b) == IF a < b THEN a ELSE b
Max(a, b) == IF a > b THEN a ELSE b

\* ------------------------------------------------------ client callables
\* What a call of a client function gives: a value, or the exception raised.
Ret(v) == [exc |-> "", val |-> v]
Raise(e) == [exc |-> e, val |-> 0]

\* Predicates handed to where/first/last/count/any/all.  "boom" raises a
\* ValueError on the element 2, "stop" raises StopIteration on it.
Predicate(p, x) ==
    CASE p = "odd"  -> Ret(x % 2 = 1)
      [] p = "gt1"  -> Ret(x > 1)
      [] p = "boom" -> IF x = 2 THEN Raise("ValueError") ELSE Ret(FALSE)
      [] p = "stop" -> IF x = 2 THEN Raise("StopIteration") ELSE Ret(FALSE)

\* Selectors handed to select, and key selectors of order_by / group_by.
Selector(f, x) ==
    CASE f = "id"     -> x
      [] f = "inc"    -> x + 1
      [] f = "parity" -> x % 2
      [] f = "neg"    -> 0 - x

\* Selectors handed to select_many: each element maps to a list.
ManySelector(f, x) ==
    CASE f = "twice" -> <<x, x>>
      [] f = "evens" -> IF x % 2 = 0 THEN <<x>> ELSE <<>>

\* Combining functions handed to aggregate.
Combine(f, a, b) ==
    CASE f = "sub" -> a - b
      [] f = "add" -> a + b

\* ------------------------------------------------------ iterator objects
\* One record shape for every iterator object on the heap:
\*   k      "gen" a generator the client built, "listiter"/"dictiter" what
\*          iter() of a list / dict returns, "where"/"select" a generator
\*          expression, "test" the one any/all build (predicate(item) for
\*          item in self), "flat" chain.from_iterable over one, "islice",
\*          "chain", "groups" the generator expression group_by returns
\*   data, pos   the elements a gen/listiter/dictiter/groups runs over and
\*               how many it has produced
\*   failAt      a gen raises KeyError instead of producing element failAt
\*   src         the iterator an adaptor pulls from; fn its client function
\*   nxt, cnt, stop, step   islice's fields (itertoolsmodule.c)
\*   parts, idx  chain's iterators and the one being read
\*   buf         flat: what is left of the current sub-list
\*   done        a finished generator, or an islice that dropped its source
Obj(k) ==
    [k |-> k, data |-> <<>>, pos |-> 0, failAt |-> 0, src |-> 0, fn |-> "",
     nxt |-> 0, cnt |-> 0, stop |-> NoneV, step |-> 1, parts |-> <<>>,
     idx |-> 1, buf |-> <<>>, done |-> FALSE]

Generator(data, failAt) == [Obj("gen") EXCEPT !.data = data, !.failAt = failAt]
ListIter(items) == [Obj("listiter") EXCEPT !.data = items]
DictIter(items) == [Obj("dictiter") EXCEPT !.data = items]
GenExpr(k, src, fn) == [Obj(k) EXCEPT !.src = src, !.fn = fn]
ISlice(src, start, stop, step) ==
    [Obj("islice") EXCEPT !.src = src, !.nxt = start, !.stop = stop, !.step = step]
Chain(parts) == [Obj("chain") EXCEPT !.parts = parts]

\* What pulling one element gives: the heap afterwards, and the element or
\* the exception ("StopIteration" when the iterator is exhausted).
Out(h, exc, val) == [h |-> h, exc |-> exc, val |-> val]

\* PEP 479: a StopIteration raised inside a generator's frame leaves the
\* generator as a RuntimeError.
InGenerator(exc) == IF exc = "StopIteration" THEN "RuntimeError" ELSE exc

\* What an adaptor's step gives: an outcome, or (again) nothing yet, the
\* adaptor going round its loop to pull from its source once more.
Give(h, exc, val) == [h |-> h, exc |-> exc, val |-> val, again |-> FALSE]
Retry(h) == [h |-> h, exc |-> "", val |-> 0, again |-> TRUE]

\* The iterator an adaptor pulls from.
Inner(o) == IF o.k = "chain" THEN o.parts[o.idx] ELSE o.src

\* An adaptor that answers next() without pulling from its source: a flat
\* with sub-list elements left, an islice that reached its stop, a chain
\* past its last part.
Settled(o) ==
    \/ o.k = "flat" /\ o.buf # <<>>
    \/ o.k = "islice" /\ o.cnt >= o.nxt /\ ~IsNone(o.stop) /\ o.cnt >= Val(o.stop)
    \/ o.k = "chain" /\ o.idx > Len(o.parts)

\* The step of adaptor i once its source answered r to next().
Resume(i, r) ==
    LET o == r.h[i]
        fails == Give([r.h EXCEPT ![i].done = TRUE], r.exc, 0)
    IN  CASE o.k = "where" ->
                 IF r.exc # "" THEN fails
                 ELSE IF Predicate(o.fn, r.val).exc # ""
                 THEN Give([r.h EXCEPT ![i].done = TRUE],
                           InGenerator(Predicate(o.fn, r.val).exc), 0)
                 ELSE IF Predicate(o.fn, r.val).val THEN Give(r.h, "", r.val)
                 ELSE Retry(r.h)
          [] o.k = "select" ->
                 IF r.exc # "" THEN fails
                 ELSE Give(r.h, "", Selector(o.fn, r.val))
          [] o.k = "test" ->
                 IF r.exc # "" THEN fails
                 ELSE IF Predicate(o.fn, r.val).exc # ""
                 THEN Give([r.h EXCEPT ![i].done = TRUE],
                           InGenerator(Predicate(o.fn, r.val).exc), 0)
                 ELSE Give(r.h, "", Predicate(o.fn, r.val).val)
          [] o.k = "flat" ->
                 IF r.exc # "" THEN fails
                 ELSE Retry([r.h EXCEPT ![i].buf = ManySelector(o.fn, r.val)])
          [] o.k = "islice" ->
                 IF r.exc # "" THEN fails
                 ELSE IF o.cnt < o.nxt
                 THEN \* an element before the next index: skipped
                      Retry([r.h EXCEPT ![i].cnt = @ + 1])
                 ELSE Give([r.h EXCEPT ![i].cnt = @ + 1,
                                       ![i].nxt = IF ~IsNone(o.stop) /\ o.nxt + o.step > Val(o.stop)
                                                  THEN Val(o.stop) ELSE o.nxt + o.step],
                           "", r.val)
          [] o.k = "chain" ->
                 IF r.exc = "StopIteration" THEN Retry([r.h EXCEPT ![i].idx = @ + 1])
                 ELSE Give(r.h, r.exc, r.val)

\* next(it) for the iterator object at heap index i.
RECURSIVE Pull(_, _)
RECURSIVE Again(_, _)
Pull(h, i) ==
    LET o == h[i] IN
    IF o.done THEN Out(h, "StopIteration", 0)
    ELSE CASE o.k \in {"listiter", "dictiter", "groups"} ->
             IF o.pos < Len(o.data)
             THEN Out([h EXCEPT ![i].pos = @ + 1], "", o.data[o.pos + 1])
             ELSE Out(h, "StopIteration", 0)
      [] o.k = "gen" ->
             IF o.pos + 1 = o.failAt
             THEN Out([h EXCEPT ![i].done = TRUE], "KeyError", 0)
             ELSE IF o.pos < Len(o.data)
             THEN Out([h EXCEPT ![i].pos = @ + 1], "", o.data[o.pos + 1])
             ELSE Out([h EXCEPT ![i].done = TRUE], "StopIteration", 0)
      [] o.k = "flat" /\ Settled(o) ->
             Out([h EXCEPT ![i].buf = Tail(@)], "", Head(o.buf))
      [] o.k = "islice" /\ Settled(o) ->
             Out([h EXCEPT ![i].done = TRUE], "StopIteration", 0)
      [] o.k = "chain" /\ Settled(o) ->
             Out(h, "StopIteration", 0)
      [] OTHER -> Again(i, Resume(i, Pull(h, Inner(o))))

\* The adaptor's loop: it pulls again until its step gives an outcome.
Again(i, s) == IF s.again THEN Pull(s.h, i) ELSE Out(s.h, s.exc, s.val)

\* The list with x put in front of what the rest of a loop collected.
Prepend(x, rest) == Out(rest.h, rest.exc, <<x>> \o rest.val)

\* Pulling until the iterator stops or raises: the elements produced, and
\* the exception that ended the loop ("" when it was StopIteration).
RECURSIVE Drain(_, _)
RECURSIVE Collect(_, _)
Drain(h, i) == Collect(i, Pull(h, i))

\* The loop of Drain after next() answered r.
Collect(i, r) ==
    IF r.exc = "StopIteration" THEN Out(r.h, "", <<>>)
    ELSE IF r.exc # "" THEN Out(r.h, r.exc, <<>>)
    ELSE Prepend(r.val, Drain(r.h, i))

\* ------------------------------------------------------------ instances
\* An IEnumerable instance:
\*   kind    what _iterable is: "list", "dict" or "iter" (an iterator)
\*   items   the list's elements / the dict's keys in insertion order
\*   it      the heap index of the iterator (kind "iter")
\*   cursor  _iterator: 0 for None, else the heap index of the cursor
\*   by, from, arg   the call that built it: the method, its receiver (0 for
\*           a client's construction) and its argument
Instance(kind, items, it, by, from, arg) ==
    [kind |-> kind, items |-> items, it |-> it, cursor |-> 0,
     by |-> by, from |-> from, arg |-> arg]

\* isinstance(self._iterable, (list, tuple)): the constructor turned a tuple
\* into a list, so a list is all there is.
IsListOrTuple(e) == e.kind = "list"

\* isinstance(self._iterable, Sized)
IsSized(e) == e.kind \in {"list", "dict"}

\* A heap with a new object, and the object's index.
Alloc(h, o) == [h |-> Append(h, o), ref |-> Len(h) + 1]

\* The heap cut back to its first n objects: what a call allocated and did
\* not keep is garbage when the call returns.
Trunc(h, n) == SubSeq(h, 1, n)

\* iter(self._iterable): an iterator is its own iterator, a list or a dict
\* gives a new one at position 0.
IterableIter(h, e) ==
    CASE e.kind = "iter" -> [h |-> h, ref |-> e.it]
      [] e.kind = "list" -> Alloc(h, ListIter(e.items))
      [] e.kind = "dict" -> Alloc(h, DictIter(e.items))

\* __iter__ handing out the instance's own cursor once it has one.
EnumIterCursor(h, e) ==
    IF e.cursor # 0 THEN [h |-> h, ref |-> e.cursor]
    ELSE IterableIter(h, e)

\* _IEnumerableProps.__iter__
EnumIter(h, e) ==
    IF e.kind = "iter" THEN [h |-> h, ref |-> e.it]
    ELSE IterableIter(h, e)

\* sum(1 for _ in ...) over what a loop read.
Counted(d) == Out(d.h, d.exc, Len(d.val))

\* IEnumerable.__len__: len of a Sized _iterable, else sum(1 for _ in self),
\* which reads the iterator to its end.
LenOf(h, e) ==
    IF IsSized(e) THEN Out(h, "", Len(e.items))
    ELSE LET a == EnumIter(h, e) IN Counted(Drain(a.h, a.ref))

\* list_extend once the length hint n is there: the iterator taken before
\* is read to its end.
Extend(n, it) ==
    IF n.exc # "" THEN Out(n.h, n.exc, <<>>) ELSE Drain(n.h, it)

\* list(self), as the interpreter runs it (Objects/listobject.c, list_extend):
\* it = iter(self), then PyObject_LengthHint(self) calls self.__len__() to
\* presize the list, then it is read to its end.
ListOfSelf(h, e) ==
    LET a == EnumIter(h, e) IN Extend(LenOf(a.h, e), a.ref)

\* IEnumerable.to_list
ToListOf(h, e) ==
    IF IsListOrTuple(e) THEN Out(h, "", e.items)
    ELSE ListOfSelf(h, e)

\* __bool__ after next() answered p: True, or False on StopIteration.
Truth(p) ==
    IF p.exc = "" THEN Out(p.h, "", TRUE)
    ELSE IF p.exc = "StopIteration" THEN Out(p.h, "", FALSE)
    ELSE Out(p.h, p.exc, 0)

\* IEnumerable.__bool__
BoolOf(h, e) ==
    LET a == EnumIter(h, e) IN Truth(Pull(a.h, a.ref))

\* Python's list[i] for an int i.
ListIndex(xs, i) ==
    IF i >= 0 /\ i < Len(xs) THEN Ret(xs[i + 1])
    ELSE IF i < 0 /\ 0 - i <= Len(xs) THEN Ret(xs[Len(xs) + i + 1])
    ELSE Raise("IndexError")

\* A slice bound as PySlice_AdjustIndices clamps it, for a positive step.
Clamp(o, dflt, n) ==
    IF IsNone(o) THEN dflt
    ELSE IF Val(o) < 0 THEN Max(Val(o) + n, 0)
    ELSE Min(Val(o), n)

\* The n elements of xs at the positions from, from + st, ...
RECURSIVE Pick(_, _, _, _)
Pick(xs, from, st, n) ==
    IF n = 0 THEN <<>> ELSE <<xs[from]>> \o Pick(xs, from + st, st, n - 1)

\* Python's list[start:stop:step] with step None or positive.
ListSlice(xs, start, stop, step) ==
    LET n  == Len(xs)
        lo == Clamp(start, 0, n)
        hi == Clamp(stop, n, n)
        st == IF IsNone(step) THEN 1 ELSE Val(step)
        cnt == IF hi > lo THEN (hi - lo + st - 1) \div st ELSE 0
    IN  Pick(xs, lo + 1, st, cnt)

\* itertools.islice(it, start, stop, step): the arguments it accepts.
ISliceArgsOk(start, stop, step) ==
    /\ IsNone(start) \/ Val(start) >= 0
    /\ IsNone(stop) \/ Val(stop) >= 0
    /\ IsNone(step) \/ Val(step) >= 1

\* IEnumerable(islice(self._iterable, start, stop, step)), or the ValueError
\* islice raises for a negative index or a step below 1.
ISliceOf(h, e, start, stop, step, by, from, arg) ==
    IF ~ISliceArgsOk(start, stop, step) THEN Out(h, "ValueError", 0)
    ELSE LET a == IterableIter(h, e)
             b == Alloc(a.h, ISlice(a.ref, IF IsNone(start) THEN 0 ELSE Val(start), stop,
                                    IF IsNone(step) THEN 1 ELSE Val(step)))
         IN  Out(b.h, "", Instance("iter", <<>>, b.ref, by, from, arg))

\* l.val[i] for the list a call gave, unless the call raised.
Indexed(l, i) ==
    IF l.exc # "" THEN Out(l.h, l.exc, 0)
    ELSE Out(l.h, ListIndex(l.val, i).exc, ListIndex(l.val, i).val)

\* IEnumerable.__getitem__ with an int
GetItemOf(h, e, i) ==
    IF IsListOrTuple(e) THEN Indexed(Out(h, "", e.items), i)
    ELSE IF i < 0 THEN Indexed(ToListOf(h, e), i)
    ELSE LET s == ISliceOf(h, e, Some(i), Some(i + 1), NoneV, "", 0, <<>>)
         IN  Pull(s.h, s.val.it)

\* IEnumerable.__getitem__ with a slice
GetSliceOf(h, e, start, stop, step, from) ==
    IF IsListOrTuple(e)
    THEN Out(h, "", Instance("list", ListSlice(e.items, start, stop, step), 0,
                             "slice", from, <<start, stop, step>>))
    ELSE ISliceOf(h, e, start, stop, step, "slice", from, <<start, stop, step>>)

\* IEnumerable.take
TakeOf(h, e, count, from) ==
    IF IsListOrTuple(e)
    THEN Out(h, "", Instance("list", ListSlice(e.items, NoneV, Some(count), NoneV), 0,
                             "take", from, count))
    ELSE ISliceOf(h, e, NoneV, Some(count), NoneV, "take", from, count)

\* IEnumerable.skip
SkipOf(h, e, count, from) ==
    IF IsListOrTuple(e)
    THEN Out(h, "", Instance("list", ListSlice(e.items, Some(count), NoneV, NoneV), 0,
                             "skip", from, count))
    ELSE ISliceOf(h, e, Some(count), NoneV, NoneV, "skip", from, count)

\* [item for item in xs if predicate(item)]: a list comprehension is no
\* generator, so what the predicate raises leaves it unchanged.
RECURSIVE FilterList(_, _)
FilterList(xs, p) ==
    IF xs = <<>> THEN Ret(<<>>)
    ELSE LET t == Predicate(p, Head(xs)) IN
         IF t.exc # "" THEN Raise(t.exc)
         ELSE LET rest == FilterList(Tail(xs), p) IN
              IF rest.exc # "" THEN rest
              ELSE Ret(IF t.val THEN <<Head(xs)>> \o rest.val ELSE rest.val)

\* [selector(item) for item in xs]
RECURSIVE MapList(_, _)
MapList(xs, f) ==
    IF xs = <<>> THEN <<>> ELSE <<Selector(f, Head(xs))>> \o MapList(Tail(xs), f)

\* [item for sublist in (selector(x) for x in xs) for item in sublist]
RECURSIVE FlatMapList(_, _)
FlatMapList(xs, f) ==
    IF xs = <<>> THEN <<>> ELSE ManySelector(f, Head(xs)) \o FlatMapList(Tail(xs), f)

\* A generator expression (or chain.from_iterable over one) of kind k over
\* iter(self._iterable), wrapped in a new instance.
LazyOf(h, e, k, fn, by, from) ==
    LET a == IterableIter(h, e)
        b == Alloc(a.h, GenExpr(k, a.ref, fn))
    IN  Out(b.h, "", Instance("iter", <<>>, b.ref, by, from, fn))

\* IEnumerable.where
WhereOf(h, e, p, from) ==
    IF IsListOrTuple(e)
    THEN LET f == FilterList(e.items, p) IN
         IF f.exc # "" THEN Out(h, f.exc, 0)
         ELSE Out(h, "", Instance("list", f.val, 0, "where", from, p))
    ELSE LazyOf(h, e, "where", p, "where", from)

\* IEnumerable.select
SelectOf(h, e, f, from) ==
    IF IsListOrTuple(e)
    THEN Out(h, "", Instance("list", MapList(e.items, f), 0, "select", from, f))
    ELSE LazyOf(h, e, "select", f, "select", from)

\* IEnumerable.select_many
SelectManyOf(h, e, f, from) ==
    IF IsListOrTuple(e)
    THEN Out(h, "", Instance("list", FlatMapList(e.items, f), 0, "select_many", from, f))
    ELSE LazyOf(h, e, "flat", f, "select_many", from)

\* IEnumerable.__add__: chain(self, other).  chain calls iter() on each
\* argument when it reaches it; iter() of an instance changes nothing, so
\* the two iterators are taken here, when the chain is built.
AddOf(h, e, o, from, other) ==
    LET a == EnumIter(h, e)
        b == EnumIter(a.h, o)
        c == Alloc(b.h, Chain(<<a.ref, b.ref>>))
    IN  Out(c.h, "", Instance("iter", <<>>, c.ref, "add", from, other))

\* IEnumerable.first: next(iter(self)), or next() of the generator
\* expression (item for item in self if predicate(item)).  p is "" for None.
FirstOf(h, e, p) ==
    LET a == EnumIter(h, e) IN
    IF p = "" THEN Pull(a.h, a.ref)
    ELSE LET g == Alloc(a.h, GenExpr("where", a.ref, p))
         IN  Pull(g.h, g.ref)

\* try: return r / except <caught>: return default
Except(caught, r, default) ==
    IF r.exc \in caught THEN Out(r.h, "", default) ELSE r

\* first_or_default with "except Exception" for "except StopIteration".
FirstOrDefaultCatchAll(h, e, default, p) ==
    Except({"StopIteration", "KeyError", "ValueError", "RuntimeError"}, FirstOf(h, e, p), default)

\* IEnumerable.first_or_default
FirstOrDefaultOf(h, e, default, p) ==
    Except({"StopIteration"}, FirstOf(h, e, p), default)

\* What first() and last() raise when there is no element:
\* StopIteration("Sequence contains no elements").
EmptySequence == "StopIteration"

\* deque(filtered, maxlen=1)[0] for what filtered gave: its last
\* element, the IndexError of an empty deque turned into StopIteration.
Rightmost(d) ==
    IF d.exc # "" THEN Out(d.h, d.exc, 0)
    ELSE IF d.val = <<>> THEN Out(d.h, "StopIteration", 0)
    ELSE Out(d.h, "", d.val[Len(d.val)])

\* IEnumerable.last
LastOf(h, e, p) ==
    IF IsListOrTuple(e)
    THEN LET f == IF p = "" THEN Ret(e.items) ELSE FilterList(e.items, p) IN
         IF f.exc # "" THEN Out(h, f.exc, 0)
         ELSE IF f.val = <<>> THEN Out(h, "StopIteration", 0)
         ELSE Out(h, "", f.val[Len(f.val)])
    ELSE LET w == IF p = "" THEN Out(h, "", e) ELSE WhereOf(h, e, p, 0)
             a == EnumIter(w.h, w.val)
         IN  Rightmost(Drain(a.h, a.ref))

\* Where sorted() puts x in an already sorted list: behind every element it
\* does not come before, so that equal keys keep their order (the sort is
\* stable, with reverse=True too).
RECURSIVE InsertSorted(_, _, _, _)
InsertSorted(xs, x, f, reverse) ==
    IF xs = <<>> THEN <<x>>
    ELSE LET first == IF reverse THEN Selector(f, x) > Selector(f, Head(xs))
                      ELSE Selector(f, x) < Selector(f, Head(xs))
         IN  IF first THEN <<x>> \o xs
             ELSE <<Head(xs)>> \o InsertSorted(Tail(xs), x, f, reverse)

RECURSIVE SortFrom(_, _, _, _)
SortFrom(done, xs, f, reverse) ==
    IF xs = <<>> THEN done
    ELSE SortFrom(InsertSorted(done, Head(xs), f, reverse), Tail(xs), f, reverse)

\* The sort of the list l that list(self) gave.
Sorting(l, f, reverse) ==
    IF l.exc # "" THEN Out(l.h, l.exc, <<>>)
    ELSE Out(l.h, "", SortFrom(<<>>, l.val, f, reverse))

\* sorted(self, key=key_selector, reverse=...): list(self), then the sort.
SortedOf(h, e, f, reverse) == Sorting(ListOfSelf(h, e), f, reverse)

\* IEnumerable(l.val) for the list a call gave, unless the call raised.
ListInstance(l, by, from, arg) ==
    IF l.exc # "" THEN Out(l.h, l.exc, 0)
    ELSE Out(l.h, "", Instance("list", l.val, 0, by, from, arg))

\* IEnumerable.order_by
OrderByOf(h, e, f, from) ==
    ListInstance(SortedOf(h, e, f, FALSE), "order_by", from, f)

\* IEnumerable.order_by_descending
OrderByDescendingOf(h, e, f, from) ==
    ListInstance(SortedOf(h, e, f, TRUE), "order_by_descending", from, f)

Contains(xs, x) == \E j \in 1..Len(xs) : xs[j] = x

\* dict.fromkeys(xs): the keys in the order in which each first occurs.
RECURSIVE FromKeys(_, _)
FromKeys(keys, xs) ==
    IF xs = <<>> THEN keys
    ELSE FromKeys(IF Contains(keys, Head(xs)) THEN keys ELSE Append(keys, Head(xs)), Tail(xs))

\* IEnumerable(dict.fromkeys(...)) of what the loop over self read.
DictInstance(d, from) ==
    IF d.exc # "" THEN Out(d.h, d.exc, 0)
    ELSE Out(d.h, "", Instance("dict", FromKeys(<<>>, d.val), 0, "distinct", from, <<>>))

\* IEnumerable.distinct: the dict itself becomes _iterable.
DistinctOf(h, e, from) ==
    LET a == EnumIter(h, e) IN DictInstance(Drain(a.h, a.ref), from)

\* group_by's loop with groups[key] = [item] for groups[key].append(item).
RECURSIVE GroupLoopOverwrite(_, _, _)
GroupLoopOverwrite(groups, xs, f) ==
    IF xs = <<>> THEN groups
    ELSE LET key == Selector(f, Head(xs))
             has == \E j \in 1..Len(groups) : groups[j].key = key
             with == IF has THEN groups ELSE Append(groups, [key |-> key, group |-> <<>>])
             j == CHOOSE j \in 1..Len(with) : with[j].key = key
         IN  GroupLoopOverwrite([with EXCEPT ![j].group = <<Head(xs)>>], Tail(xs), f)

\* The loop of group_by over the elements read: groups is the dict, as the
\* sequence of its (key, list) entries in insertion order.
RECURSIVE GroupLoop(_, _, _)
GroupLoop(groups, xs, f) ==
    IF xs = <<>> THEN groups
    ELSE LET key == Selector(f, Head(xs))
             has == \E j \in 1..Len(groups) : groups[j].key = key
             with == IF has THEN groups ELSE Append(groups, [key |-> key, group |-> <<>>])
             j == CHOOSE j \in 1..Len(with) : with[j].key = key
         IN  GroupLoop([with EXCEPT ![j].group = Append(@, Head(xs))], Tail(xs), f)

\* group_by once "for item in self" read d: the groups, and the generator
\* expression over them on a heap of n objects (iter(self) of a list is
\* dropped).
Grouped(d, n, f, from) ==
    IF d.exc # "" THEN Out(d.h, d.exc, 0)
    ELSE Out(Append(Trunc(d.h, n), [Obj("groups") EXCEPT !.data = GroupLoop(<<>>, d.val, f)]),
             "", Instance("iter", <<>>, n + 1, "group_by", from, f))

\* IEnumerable.group_by: the generator expression over groups.items(); each
\* element it produces is (key, IEnumerable(group)), here the key with the
\* list the new instance holds.
GroupByOf(h, e, f, from) ==
    LET a == EnumIter(h, e) IN Grouped(Drain(a.h, a.ref), Len(h), f, from)

\* IEnumerable.count
CountOf(h, e, p) ==
    IF p = "" THEN LenOf(h, e)
    ELSE LET a == EnumIter(h, e)
             g == Alloc(a.h, GenExpr("where", a.ref, p))
         IN  Counted(Drain(g.h, g.ref))

\* any(it) / all(it) of the builtins: read until an element decides.
RECURSIVE ReadUntil(_, _, _)
RECURSIVE Decide(_, _, _)
ReadUntil(h, i, decisive) == Decide(i, decisive, Pull(h, i))

\* The loop of any/all after next() answered r.
Decide(i, decisive, r) ==
    IF r.exc = "StopIteration" THEN Out(r.h, "", ~decisive)
    ELSE IF r.exc # "" THEN r
    ELSE IF r.val = decisive THEN Out(r.h, "", decisive)
    ELSE ReadUntil(r.h, i, decisive)

\* IEnumerable.any
AnyOf(h, e, p) ==
    IF p = "" THEN BoolOf(h, e)
    ELSE LET a == EnumIter(h, e)
             g == Alloc(a.h, GenExpr("test", a.ref, p))
         IN  ReadUntil(g.h, g.ref, TRUE)

\* IEnumerable.all
AllOf(h, e, p) ==
    LET a == EnumIter(h, e)
        g == Alloc(a.h, GenExpr("test", a.ref, p))
    IN  ReadUntil(g.h, g.ref, FALSE)

\* functools.reduce's loop once the accumulator is set.
RECURSIVE Fold(_, _, _, _)
RECURSIVE Accumulate(_, _, _, _)
Fold(h, i, f, acc) == Accumulate(i, f, acc, Pull(h, i))

\* reduce's loop after next() answered r.
Accumulate(i, f, acc, r) ==
    IF r.exc = "StopIteration" THEN Out(r.h, "", acc)
    ELSE IF r.exc # "" THEN r
    ELSE Fold(r.h, i, f, Combine(f, acc, r.val))

\* reduce with no initial value, after the first next() answered r.
Initial(i, f, r) ==
    IF r.exc = "StopIteration" THEN Out(r.h, "TypeError", 0)
    ELSE IF r.exc # "" THEN r
    ELSE Fold(r.h, i, f, r.val)

\* IEnumerable.aggregate: reduce(func, self) when seed is None, else
\* reduce(func, self, seed).  reduce raises TypeError when it has no initial
\* value and the iterable is empty.
AggregateOf(h, e, f, seed) ==
    LET a == EnumIter(h, e) IN
    IF IsNone(seed) THEN Initial(a.ref, f, Pull(a.h, a.ref))
    ELSE Fold(a.h, a.ref, f, Val(seed))

\* set(...) of what the loop over self read.
AsSet(d) == Out(d.h, d.exc, {d.val[j] : j \in 1..Len(d.val)})

\* IEnumerable.to_set
ToSetOf(h, e) ==
    LET a == EnumIter(h, e) IN AsSet(Drain(a.h, a.ref))

\* IEnumerable.__contains__: any(x == item for x in self)
RECURSIVE Find(_, _, _)
RECURSIVE Match(_, _, _)
Find(h, i, item) == Match(i, item, Pull(h, i))

\* The loop of __contains__ after next() answered r.
Match(i, item, r) ==
    IF r.exc = "StopIteration" THEN Out(r.h, "", FALSE)
    ELSE IF r.exc # "" THEN r
    ELSE IF r.val = item THEN Out(r.h, "", TRUE)
    ELSE Find(r.h, i, item)

ContainsOf(h, e, item) ==
    LET a == EnumIter(h, e) IN Find(a.h, a.ref, item)

\* all(a == b for a, b in zip(x, y)): zip reads x, then y, and stops when
\* either is exhausted.
RECURSIVE ZipAllEqual(_, _, _)
RECURSIVE ZipLeft(_, _, _)
RECURSIVE ZipRight(_, _, _, _)
ZipAllEqual(h, i, j) == ZipLeft(i, j, Pull(h, i))

\* zip after the left iterator answered a: it asks the right one.
ZipLeft(i, j, a) ==
    IF a.exc = "StopIteration" THEN Out(a.h, "", TRUE)
    ELSE IF a.exc # "" THEN a
    ELSE ZipRight(i, j, a.val, Pull(a.h, j))

\* zip after the right iterator answered b: the pair is compared.
ZipRight(i, j, x, b) ==
    IF b.exc = "StopIteration" THEN Out(b.h, "", TRUE)
    ELSE IF b.exc # "" THEN b
    ELSE IF x # b.val THEN Out(b.h, "", FALSE)
    ELSE ZipAllEqual(b.h, i, j)

\* IEnumerable.__eq__ with another instance
EqOf(h, e, o) ==
    LET a == EnumIter(h, e)
        b == EnumIter(a.h, o)
    IN  ZipAllEqual(b.h, a.ref, b.ref)

\* What next(self._iterator) answered, with the cursor the instance keeps.
WithCursor(p, it) == [h |-> p.h, exc |-> p.exc, val |-> p.val, cursor |-> it]

\* _IEnumerableProps.__next__: the cursor is iter(self), taken on the first
\* call and kept.
NextOf(h, e) ==
    LET a == IF e.cursor = 0 THEN EnumIter(h, e) ELSE [h |-> h, ref |-> e.cursor]
    IN  WithCursor(Pull(a.h, a.ref), a.ref)

\* for x in e: ... run to its end by the caller: iter(e), then next() until
\* StopIteration.
IterateOf(h, e) ==
    LET a == EnumIter(h, e) IN Drain(a.h, a.ref)

\* _IEnumerableProps.__init__: a list or a tuple is copied into a list,
\* anything else is kept as it is (here a generator, put on the heap).
ConstructOf(source) ==
    IF source.type \in {"list", "tuple"}
    THEN [enums |-> <<Instance("list", source.data, 0, "init", 0, <<>>)>>,
          heap |-> <<>>]
    ELSE [enums |-> <<Instance("iter", <<>>, 1, "init", 0, <<>>)>>,
          heap |-> <<Generator(source.data, source.failAt)>>]

\* What a loop read and how it ended, without the heap.
Read(d) == [items |-> d.val, exc |-> d.exc]

\* What a for loop over instance i would read from the current state: the
\* elements, and the exception that ends it ("" when it ends normally).
Stream(i) == Read(IterateOf(heap, enums[i]))

\* The history variable's value for a call made in the current state.
Snapshot == [i \in DOMAIN enums |-> Stream(i)]

\* ------------------------------------------------------------- the calls
\* The call just made: the method, the receiver, the argument, what it
\* raised ("" when it returned), what it returned, and the index of the
\* instance it built (0 when it built none).
Call(op, recv, arg, exc, val, new) ==
    [op |-> op, recv |-> recv, arg |-> arg, exc |-> exc, val |-> val, new |-> new]

Preds == {"odd", "gt1"}
FaultyPreds == {"boom", "stop"}
Counts == (0 - 1)..(MaxLen + 1)
Seeds == {NoneV, Some(3)}

\* What the client hands to the constructor.
Source(types, elems, n, fails) ==
    {s \in [type : types, data : SeqsUpTo(elems, n), failAt : fails] :
        s.failAt <= Len(s.data) + 1}

Start(source) ==
    /\ enums = ConstructOf(source).enums
    /\ heap = ConstructOf(source).heap
    /\ last = Call("init", 1, source.type, "", 0, 1)
    /\ before = Snapshot

\* A call that returns a value and builds no instance: what it allocated
\* and did not keep is dropped.
Returns(op, r, arg, out) ==
    /\ heap' = Trunc(out.h, Len(heap))
    /\ last' = Call(op, r, arg, out.exc, IF out.exc = "" THEN out.val ELSE 0, 0)
    /\ before' = Snapshot
    /\ UNCHANGED enums

\* A call that returns a new instance, or raises.
Builds(op, r, arg, out, keep) ==
    /\ before' = Snapshot
    /\ IF out.exc # ""
       THEN /\ heap' = Trunc(out.h, Len(heap))
            /\ last' = Call(op, r, arg, out.exc, 0, 0)
            /\ UNCHANGED enums
       ELSE /\ heap' = IF keep THEN out.h ELSE Trunc(out.h, Len(heap))
            /\ enums' = Append(enums, out.val)
            /\ last' = Call(op, r, arg, "", 0, Len(enums) + 1)

Advances(r, n) ==
    /\ heap' = n.h
    /\ enums' = [enums EXCEPT ![r].cursor = n.cursor]
    /\ last' = Call("next", r, <<>>, n.exc, IF n.exc = "" THEN n.val ELSE 0, 0)
    /\ before' = Snapshot

Next__(r) == Advances(r, NextOf(heap, enums[r]))

Iterate(r) == Returns("iterate", r, <<>>, IterateOf(heap, enums[r]))
GetItem(r, i) == Returns("getitem", r, i, GetItemOf(heap, enums[r], i))
GetSlice(r, start, stop, step) ==
    Builds("slice", r, <<start, stop, step>>,
           GetSliceOf(heap, enums[r], start, stop, step, r), TRUE)
LenCall(r) == Returns("len", r, <<>>, LenOf(heap, enums[r]))
BoolCall(r) == Returns("bool", r, <<>>, BoolOf(heap, enums[r]))
ContainsCall(r, item) == Returns("contains", r, item, ContainsOf(heap, enums[r], item))
Add(r, o) == Builds("add", r, o, AddOf(heap, enums[r], enums[o], r, o), TRUE)
Eq(r, o) == Returns("eq", r, o, EqOf(heap, enums[r], enums[o]))
Where(r, p) == Builds("where", r, p, WhereOf(heap, enums[r], p, r), TRUE)
Select(r, f) == Builds("select", r, f, SelectOf(heap, enums[r], f, r), TRUE)
SelectMany(r, f) == Builds("select_many", r, f, SelectManyOf(heap, enums[r], f, r), TRUE)
First(r, p) == Returns("first", r, p, FirstOf(heap, enums[r], p))
FirstOrDefault(r, default, p) ==
    Returns("first_or_default", r, <<default, p>>, FirstOrDefaultOf(heap, enums[r], default, p))
Last(r, p) == Returns("last", r, p, LastOf(heap, enums[r], p))
Take(r, count) == Builds("take", r, count, TakeOf(heap, enums[r], count, r), TRUE)
Skip(r, count) == Builds("skip", r, count, SkipOf(heap, enums[r], count, r), TRUE)
OrderBy(r, f) == Builds("order_by", r, f, OrderByOf(heap, enums[r], f, r), FALSE)
OrderByDescending(r, f) ==
    Builds("order_by_descending", r, f, OrderByDescendingOf(heap, enums[r], f, r), FALSE)
GroupBy(r, f) == Builds("group_by", r, f, GroupByOf(heap, enums[r], f, r), TRUE)
Distinct(r) == Builds("distinct", r, <<>>, DistinctOf(heap, enums[r], r), FALSE)
Count(r, p) == Returns("count", r, p, CountOf(heap, enums[r], p))
Any(r, p) == Returns("any", r, p, AnyOf(heap, enums[r], p))
All(r, p) == Returns("all", r, p, AllOf(heap, enums[r], p))
Aggregate(r, f, seed) == Returns("aggregate", r, <<f, seed>>, AggregateOf(heap, enums[r], f, seed))
ToList(r) == Returns("to_list", r, <<>>, ToListOf(heap, enums[r]))
ToSet(r) == Returns("to_set", r, <<>>, ToSetOf(heap, enums[r]))

\* Each specification below runs one scenario: a source, the instances the
\* scenario derives from it, and the calls made on them in any order.
\* Only the source's instance exists: the scenario's first derivation.
Underived == Len(enums) = 1

\* ------------------------------------------------- a Materialized source
\* Every method, on an instance built from a list or a tuple and on one
\* instance derived from it.
InitMaterialized == \E source \in Source({"list", "tuple"}, {1, 2}, MaxLen, {0}) : Start(source)

NextMaterialized ==
    \/ /\ Underived
       /\ \/ \E start \in {NoneV, Some(1)}, step \in {NoneV, Some(2)} :
                 GetSlice(1, start, Some(0 - 1), step)
          \/ Add(1, 1)
          \/ \E p \in {"odd"} : Where(1, p)
          \/ \E f \in {"inc"} : Select(1, f)
          \/ \E f \in {"twice"} : SelectMany(1, f)
          \/ \E count \in {1} : Take(1, count)
          \/ \E count \in {1} : Skip(1, count)
    \/ \E r \in DOMAIN enums :
          \/ Next__(r)
          \/ Iterate(r)
          \/ \E i \in {0 - 1, MaxLen} : GetItem(r, i)
          \/ LenCall(r)
          \/ BoolCall(r)
          \/ ContainsCall(r, 2)
          \/ Eq(r, 1)
          \/ First(r, "odd")
          \/ Last(r, "")
          \/ Count(r, "")

SpecMaterialized == InitMaterialized /\ [][NextMaterialized]_vars

\* C1: an instance built from a list or a tuple is never consumed: whatever
\* has been called, on it or on what was derived from it, a new traversal of
\* it reads its list from position 0, as one did before the last call.
MaterializedNeverConsumed ==
    \A i \in DOMAIN enums :
        enums[i].by = "init" =>
            /\ Stream(i) = [items |-> enums[i].items, exc |-> ""]
            /\ i \in DOMAIN before => Stream(i) = before[i]

\* A Materialized instance whose own cursor has moved (next() was called on
\* it) and whose elements were read through a concatenation built on it.
MaterializedWasRead ==
    \E i \in DOMAIN enums, c \in DOMAIN enums :
        /\ enums[i].by = "init" /\ IsListOrTuple(enums[i])
        /\ enums[i].cursor # 0 /\ heap[enums[i].cursor].pos >= 1
        /\ enums[c].by = "add" /\ enums[c].from = i
        /\ heap[heap[enums[c].it].parts[1]].pos >= 1

\* --------------------------------------------- instances and their results
\* A list or a generator, one instance derived from it, and both read.
InitShared == \E source \in Source({"list", "generator"}, {1, 2}, MaxLen, {0}) : Start(source)

NextShared ==
    \/ /\ Underived
       /\ \/ Where(1, "odd")
          \/ Select(1, "inc")
          \/ SelectMany(1, "twice")
          \/ Take(1, 1)
          \/ Skip(1, 1)
          \/ GetSlice(1, Some(1), NoneV, NoneV)
          \/ Add(1, 1)
    \/ \E r \in DOMAIN enums :
          \/ Next__(r)
          \/ Iterate(r)
          \/ BoolCall(r)
          \/ Any(r, "")

SpecShared == InitShared /\ [][NextShared]_vars

\* C2: reading from the instance an operator returned does not move its
\* receiver: after next() or a traversal of a derived instance, a traversal
\* of the receiver reads what it would have read before.
ResultOwnsItsState ==
    (last.op \in {"next", "iterate"} /\ enums[last.recv].from # 0) =>
        Stream(enums[last.recv].from) = before[enums[last.recv].from]

\* C3: bool(S), and any() with no predicate, peek: after a check that
\* returned True a traversal of S reads what it would have read before.
TruthinessPeeks ==
    (/\ last.op \in {"bool", "any"}
     /\ last.exc = ""
     /\ last.val = TRUE) =>
        Stream(last.recv) = before[last.recv]

\* ---------------------------------------------------- take(n) + skip(n)
\* S.take(n) + S.skip(m), built step by step, with reads in between.
NextConcat ==
    \/ /\ Underived
       /\ \E n \in 0..MaxLen : Take(1, n)
    \/ /\ Len(enums) = 2
       /\ \E n \in 0..MaxLen : Skip(1, n)
    \/ /\ Len(enums) = 3
       /\ Add(2, 3)
    \/ Next__(1)
    \/ \E r \in DOMAIN enums : Iterate(r)

SpecConcat == InitShared /\ [][NextConcat]_vars

\* Nothing has been read through instance i since it was built.
Untouched(i) ==
    \/ IsListOrTuple(enums[i])
    \/ /\ enums[i].kind = "iter"
       /\ heap[enums[i].it].cnt = 0
       /\ ~heap[enums[i].it].done

\* C4: for 0 <= n <= len(S), S.take(n) + S.skip(n) reads the elements of S,
\* in order.
TakePlusSkipIsAll ==
    (/\ last.op = "add"
     /\ last.exc = ""
     /\ enums[last.recv].by = "take"
     /\ enums[last.arg].by = "skip"
     /\ enums[last.recv].from = enums[last.arg].from
     /\ enums[last.recv].arg = enums[last.arg].arg
     /\ enums[last.recv].arg <= Len(before[enums[last.recv].from].items)
     /\ Untouched(last.recv)
     /\ Untouched(last.arg)) =>
        Stream(last.new) = before[enums[last.recv].from]

\* ------------------------------------------------ first, first_or_default
\* A list, or a generator that may raise KeyError instead of producing an
\* element; predicates that may raise; first and first_or_default on the
\* source's instance and on one derived from it.
InitFirst ==
    \E source \in Source({"list"}, {1, 2}, MaxLen, {0})
                  \cup Source({"generator"}, {1, 2}, MaxLen, 0..(MaxLen + 1)) :
        Start(source)

NextFirst ==
    \/ /\ Underived
       /\ \/ \E p \in {"gt1", "stop"} : Where(1, p)
          \/ Select(1, "inc")
    \/ \E r \in DOMAIN enums :
          \/ Next__(r)
          \/ \E p \in Preds \cup FaultyPreds \cup {""} : First(r, p)
          \/ \E p \in Preds \cup FaultyPreds \cup {""} : FirstOrDefault(r, 0, p)

SpecFirst == InitFirst /\ [][NextFirst]_vars

\* What the search for the first element (matching p, "" for no predicate)
\* meets first in a traversal that reads s.items and then ends with s.exc:
\* a match, a failure of the predicate or of the source, or the end.
FirstMet(s, p) ==
    LET Decides(x) == p = "" \/ Predicate(p, x).exc # "" \/ Predicate(p, x).val
        hits == {j \in 1..Len(s.items) : Decides(s.items[j])}
    IN  IF hits # {}
        THEN LET j == CHOOSE j \in hits : \A k \in hits : j <= k
             IN  IF p # "" /\ Predicate(p, s.items[j]).exc # "" THEN <<"failure">>
                 ELSE <<"value", s.items[j]>>
        ELSE IF s.exc # "" THEN <<"failure">> ELSE <<"empty">>

\* What the last call gave: a value, EmptySequence, or another failure.
Gave ==
    IF last.exc = "" THEN <<"value", last.val>>
    ELSE IF last.exc = EmptySequence THEN <<"empty">>
    ELSE <<"failure">>

\* C5: first signals EmptySequence exactly when there is no (matching)
\* element; first_or_default returns the default in that case and in no
\* other: a failure of the predicate or of the source reaches the caller.
FirstOrDefaultSuppressesOnlyEmpty ==
    /\ last.op = "first" => Gave = FirstMet(before[last.recv], last.arg)
    /\ last.op = "first_or_default" =>
           LET met == FirstMet(before[last.recv], last.arg[2])
           IN  Gave = IF met = <<"empty">> THEN <<"value", last.arg[1]>> ELSE met

\* first_or_default let a failure through: of the source (KeyError) or of
\* the predicate.
FirstOrDefaultFailed ==
    /\ last.op = "first_or_default"
    /\ last.exc # ""

\* ------------------------------------------------------------- aggregate
\* The calls that read a source for one result, on the source's instance.
NextScalar ==
    \/ Next__(1)
    \/ First(1, "")
    \/ Last(1, "")
    \/ \E f \in {"sub", "add"}, seed \in Seeds : Aggregate(1, f, seed)
    \/ All(1, "odd")
    \/ ToList(1)
    \/ ToSet(1)

SpecScalar == InitShared /\ [][NextScalar]_vars

RECURSIVE FoldLeft(_, _, _)
FoldLeft(f, acc, xs) ==
    IF xs = <<>> THEN acc ELSE FoldLeft(f, Combine(f, acc, Head(xs)), Tail(xs))

\* C6: aggregate is a left fold in element order; with no seed it starts
\* from the first element, and on an empty source it signals EmptySequence,
\* as first() and last() do.
AggregateFoldsOrSignalsEmpty ==
    /\ (last.op \in {"first", "last"} /\ before[last.recv].items = <<>>) =>
           last.exc = EmptySequence
    /\ last.op = "aggregate" =>
           LET xs == before[last.recv].items
               f == last.arg[1]
               seed == last.arg[2]
           IN  IF ~IsNone(seed) THEN last.exc = "" /\ last.val = FoldLeft(f, Val(seed), xs)
               ELSE IF xs = <<>> THEN last.exc = EmptySequence
               ELSE last.exc = "" /\ last.val = FoldLeft(f, Head(xs), Tail(xs))

\* ------------------------------------------------- take, skip, indexing
NextIndex ==
    \/ /\ Underived
       /\ \/ \E n \in Counts : Take(1, n)
          \/ \E n \in Counts : Skip(1, n)
    \/ \E r \in DOMAIN enums :
          \/ Next__(r)
          \/ Iterate(r)
          \/ \E i \in Counts : GetItem(r, i)

SpecIndex == InitShared /\ [][NextIndex]_vars

\* C7: take(n) and skip(n) signal no error for any n, when called or when
\* the result is read; take(0) is empty and skip(0) is the sequence; n
\* beyond the length is clamped.
TakeSkipNeverFail ==
    last.op \in {"take", "skip"} =>
        /\ last.exc = ""
        /\ LET xs == before[last.recv].items
               n == last.arg
               out == Stream(last.new)
           IN  /\ out.exc = ""
               /\ (last.op = "take" /\ n = 0) => out.items = <<>>
               /\ (last.op = "take" /\ n >= Len(xs)) => out.items = xs
               /\ (last.op = "skip" /\ n = 0) => out.items = xs
               /\ (last.op = "skip" /\ n >= Len(xs)) => out.items = <<>>

\* C8: S[i] with i beyond the bounds (i >= len, or i < -len) signals
\* IndexOutOfRange, whatever S is.
IndexBeyondBoundsIsIndexError ==
    (/\ last.op = "getitem"
     /\ \/ last.arg >= Len(before[last.recv].items)
        \/ 0 - last.arg > Len(before[last.recv].items)) =>
        last.exc = "IndexError"

\* ------------------------------------------- order_by and distinct
\* An ordering or distinct of the source, an instance derived from the
\* result, and traversals.
NextOrder ==
    \/ /\ Underived
       /\ \/ \E f \in {"id", "parity"} : OrderBy(1, f)
          \/ \E f \in {"id", "parity"} : OrderByDescending(1, f)
          \/ Distinct(1)
    \/ /\ Len(enums) = 2
       /\ \/ Where(2, "odd")
          \/ Select(2, "inc")
          \/ Take(2, 1)
          \/ Skip(2, 1)
          \/ GetSlice(2, Some(1), NoneV, NoneV)
    \/ \E r \in DOMAIN enums : Iterate(r)

SpecOrder == InitShared /\ [][NextOrder]_vars

Ordered(i) == enums[i].by \in {"order_by", "order_by_descending", "distinct"}

\* C9: what order_by, order_by_descending and distinct return is
\* Materialized, and so is what where/select/take/skip/slicing build from
\* it: a traversal of either leaves it as it was, to be read again from the
\* start.
OrderedIsMaterialized ==
    (/\ last.op = "iterate"
     /\ \/ Ordered(last.recv)
        \/ /\ enums[last.recv].from # 0
           /\ Ordered(enums[last.recv].from)
           /\ enums[last.recv].by \in {"where", "select", "take", "skip", "slice"}) =>
        /\ last.exc = ""
        /\ Stream(last.recv) = before[last.recv]
        /\ Stream(last.recv).items = last.val

\* --------------------------------------------------------------- group_by
\* group_by's cases (two keys, and two elements under one key) need three
\* elements.
InitGroup ==
    \E source \in Source({"list", "generator"}, Elems, MaxLen + 1, {0}) : Start(source)

NextGroup ==
    \/ /\ Underived
       /\ \E f \in {"id", "parity"} : GroupBy(1, f)
    \/ \E r \in DOMAIN enums :
          \/ Next__(r)
          \/ Iterate(r)

SpecGroup == InitGroup /\ [][NextGroup]_vars

\* How often v occurs in xs.
Occurrences(xs, v) == Cardinality({j \in 1..Len(xs) : xs[j] = v})

RECURSIVE Concat(_)
Concat(groups) ==
    IF groups = <<>> THEN <<>> ELSE Head(groups).group \o Concat(Tail(groups))

\* C10: S.group_by(k) yields one (key, group) pair per distinct key, in the
\* order in which the keys first occur in S; each group holds the elements
\* of S with that key in their order in S; the groups concatenated are a
\* permutation of S.
GroupByPartitionsInOrder ==
    (last.op = "group_by" /\ last.exc = "") =>
        LET xs == before[last.recv].items
            k(x) == Selector(last.arg, x)
            ys == Stream(last.new).items
            FirstAt(key) == CHOOSE j \in 1..Len(xs) :
                                /\ k(xs[j]) = key
                                /\ \A i \in 1..(j - 1) : k(xs[i]) # key
        IN  /\ \A j \in 1..Len(xs) : \E a \in 1..Len(ys) : ys[a].key = k(xs[j])
            /\ \A a \in 1..Len(ys) :
                   /\ ys[a].group # <<>>
                   /\ ys[a].group = SelectSeq(xs, LAMBDA x : k(x) = ys[a].key)
            /\ \A a \in 1..Len(ys), b \in 1..Len(ys) :
                   a < b => FirstAt(ys[a].key) < FirstAt(ys[b].key)
            /\ \A v \in Elems : Occurrences(Concat(ys), v) = Occurrences(xs, v)

\* group_by gave two groups, one of them with two elements.
GroupedTwoKeys ==
    /\ last.op = "group_by"
    /\ last.exc = ""
    /\ Len(Stream(last.new).items) = 2
    /\ \E a \in 1..2 : Len(Stream(last.new).items[a].group) = 2

====
